---- MODULE Spec2Model ----
(* A model of src/main.py: the localized-operator lexicon, the variable       *)
(* extractor, the stack evaluator (evaluate_step) and the truth-table builder *)
(* (generate_truth_table).                                                    *)
(*                                                                            *)
(* A Python str is a sequence of characters. An ASCII character is a          *)
(* one-character string; a Cyrillic character is the string "uXXXX" of its    *)
(* code point, so that the operator phrases are spelled letter by letter.     *)
(* A Python bool on the evaluator's stack is PyTrue / PyFalse; an operator    *)
(* tag on the stack is the tag's character sequence, as in the source, where  *)
(* both kinds of object share one list.                                       *)
EXTENDS Integers, Sequences, FiniteSets, TLC

VARIABLES
    expression,     \* the raw expression (argument of both functions)
    values,         \* evaluate_step: the assignment, variable -> BOOLEAN
    tokens,         \* evaluate_step: the token list
    pos,            \* evaluate_step: index of the next token of the for loop
    stack,          \* evaluate_step: stack
    value_stack,    \* evaluate_step: value_stack
    steps,          \* evaluate_step: steps
    pc,             \* evaluate_step: position in the function
    result,         \* evaluate_step: the returned stack[0]
    raised,         \* evaluate_step: the exception that left the function
    variables,      \* generate_truth_table: variables
    combinations,   \* generate_truth_table: combinations
    table_steps,    \* generate_truth_table: steps (of the first assignment)
    step_headers,   \* generate_truth_table: step_headers
    markdown_table, \* generate_truth_table: markdown_table, one entry per line
    combo,          \* generate_truth_table: index of the next combination
    step_results,   \* generate_truth_table: step_results of the last row
    row,            \* generate_truth_table: row of the last row
    tpc,            \* generate_truth_table: position in the function
    treturn         \* generate_truth_table: what left the function

evars == <<values, tokens, pos, stack, value_stack, steps, pc, result, raised>>
tvars == <<variables, combinations, table_steps, step_headers, markdown_table,
           combo, step_results, row, tpc, treturn>>
vars == <<expression, evars, tvars>>

-----------------------------------------------------------------------------
(* Bounds of the model.                                                       *)

\* most operator applications in a generated well-formed expression
MaxOps == 2
\* most pieces in a generated arbitrary expression over WidePieces
MaxShort == 3
\* most pieces in a generated arbitrary expression over NarrowPieces
MaxTokens == 7

-----------------------------------------------------------------------------
(* Characters and the lexicon.                                                *)

AsciiLetters ==
    <<"A", "B", "C", "D", "E", "F", "G", "H", "I", "J", "K", "L", "M",
      "N", "O", "P", "Q", "R", "S", "T", "U", "V", "W", "X", "Y", "Z",
      "a", "b", "c", "d", "e", "f", "g", "h", "i", "j", "k", "l", "m",
      "n", "o", "p", "q", "r", "s", "t", "u", "v", "w", "x", "y", "z">>

\* c.isalpha() and c.isascii()
IsAsciiAlpha(c) == \E n \in DOMAIN AsciiLetters : AsciiLetters[n] = c

AND == <<"A", "N", "D">>
OR == <<"O", "R">>
IMPLIES == <<"I", "M", "P", "L", "I", "E", "S">>
NOT == <<"N", "O", "T">>
EQUIV == <<"E", "Q", "U", "I", "V">>
XOR == <<"X", "O", "R">>

\* the six localized phrases, in the order of the source's dict literals
Konjunkcija ==
    <<"u043A", "u043E", "u043D", "u044A", "u044E", "u043D", "u043A", "u0446",
      "u0438", "u044F">>
Dizjunkcija ==
    <<"u0434", "u0438", "u0437", "u044A", "u044E", "u043D", "u043A", "u0446",
      "u0438", "u044F">>
Implikacija ==
    <<"u0438", "u043C", "u043F", "u043B", "u0438", "u043A", "u0430", "u0446",
      "u0438", "u044F">>
Otricanie ==
    <<"u043E", "u0442", "u0440", "u0438", "u0446", "u0430", "u043D", "u0438",
      "u0435">>
Ekvivalentnost ==
    <<"u044D", "u043A", "u0432", "u0438", "u0432", "u0430", "u043B", "u0435",
      "u043D", "u0442", "u043D", "u043E", "u0441", "u0442", "u044C">>
IskljuchajushheeIli ==
    <<"u0438", "u0441", "u043A", "u043B", "u044E", "u0447", "u0430", "u044E",
      "u0449", "u0435", "u0435", " ", "u0438", "u043B", "u0438">>

\* parse_expression's replacements, as the ordered items of the dict
replacements ==
    << <<Konjunkcija, AND>>, <<Dizjunkcija, OR>>, <<Implikacija, IMPLIES>>,
       <<Otricanie, NOT>>, <<Ekvivalentnost, EQUIV>>,
       <<IskljuchajushheeIli, XOR>> >>

\* generate_truth_table's tag -> LaTeX dict, as its ordered items
latex_items ==
    << <<AND, <<"\\", "l", "a", "n", "d">> >>,
       <<OR, <<"\\", "l", "o", "r">> >>,
       <<IMPLIES, <<"\\", "r", "i", "g", "h", "t", "a", "r", "r", "o", "w">> >>,
       <<NOT, <<"\\", "n", "e", "g">> >>,
       <<EQUIV, <<"\\", "l", "e", "f", "t", "r", "i", "g", "h", "t", "a", "r",
                  "r", "o", "w">> >>,
       <<XOR, <<"\\", "o", "p", "l", "u", "s">> >> >>

\* str.replace(old, new): leftmost non-overlapping occurrences, old non-empty
RECURSIVE replace(_, _, _)
replace(s, old, new) ==
    IF Len(s) < Len(old) THEN s
    ELSE IF SubSeq(s, 1, Len(old)) = old
         THEN new \o replace(SubSeq(s, Len(old) + 1, Len(s)), old, new)
         ELSE <<s[1]>> \o replace(Tail(s), old, new)

\* str.split(): the maximal runs of non-whitespace characters
RECURSIVE split_from(_, _, _)
split_from(s, n, cur) ==
    IF n > Len(s) THEN (IF cur = <<>> THEN <<>> ELSE <<cur>>)
    ELSE IF s[n] = " "
         THEN (IF cur = <<>> THEN <<>> ELSE <<cur>>) \o split_from(s, n + 1, <<>>)
         ELSE split_from(s, n + 1, Append(cur, s[n]))

split(s) == split_from(s, 1, <<>>)

\* the for loop of parse_expression, from item n on
RECURSIVE parse_from(_, _)
parse_from(s, n) ==
    IF n > Len(replacements) THEN s
    ELSE parse_from(
             replace(s, replacements[n][1],
                     <<" ">> \o replacements[n][2] \o <<" ">>),
             n + 1)

parse_expression(e) == parse_from(e, 1)

\* the for loop of get_variables, from item n on
RECURSIVE clean_from(_, _)
clean_from(s, n) ==
    IF n > Len(replacements) THEN s
    ELSE clean_from(replace(s, replacements[n][1], <<" ">>), n + 1)

\* sorted(set(c for c in cleaned_expr if c.isalpha() and c.isascii()))
get_variables(e) ==
    LET cleaned_expr == clean_from(e, 1)
    IN SelectSeq(AsciiLetters,
                 LAMBDA c : \E n \in DOMAIN cleaned_expr : cleaned_expr[n] = c)

\* expr.replace('(', ' ( ').replace(')', ' ) ').split()
tokenize(expr) ==
    split(replace(replace(expr, <<"(">>, <<" ", "(", " ">>),
                  <<")">>, <<" ", ")", " ">>))

-----------------------------------------------------------------------------
(* The truth functions, on Python objects.                                    *)

PyTrue == <<"True">>
PyFalse == <<"False">>
Bool(b) == IF b THEN PyTrue ELSE PyFalse
\* bool(x): False is falsy, True and every non-empty str are truthy
Truthy(x) == x # PyFalse

\* `a or b` in the place of `a and b`
conjunction_or(a, b) == IF Truthy(a) THEN a ELSE b
\* `a and b`
conjunction(a, b) == IF Truthy(a) THEN b ELSE a

disjunction(a, b) == IF Truthy(a) THEN a ELSE b

implication(a, b) == IF ~Truthy(a) THEN PyTrue ELSE b

negation(a) == Bool(~Truthy(a))

equivalence(a, b) == Bool(a = b)

exclusive_or(a, b) == Bool(a # b)

\* the keys of evaluate_step's operations dict
operations == {AND, OR, IMPLIES, NOT, EQUIV, XOR}

\* operations[operator](operand1, operand2) for the two-parameter functions
apply2(operator, operand1, operand2) ==
    CASE operator = AND -> conjunction(operand1, operand2)
      [] operator = OR -> disjunction(operand1, operand2)
      [] operator = IMPLIES -> implication(operand1, operand2)
      [] operator = EQUIV -> equivalence(operand1, operand2)
      [] operator = XOR -> exclusive_or(operand1, operand2)

-----------------------------------------------------------------------------
(* evaluate_step. Its three lists are carried in a record                     *)
(* [stack, value_stack, steps, raised].                                       *)

NoError == [type |-> "none", message |-> <<>>]

\* the exception of operations['NOT'](operand1, operand2): negation takes one
\* argument (the interpreter's message is not modelled)
TypeError == [type |-> "TypeError", message |-> <<>>]
\* the exception of stack[0] on an empty list
IndexError == [type |-> "IndexError", message |-> <<>>]
\* ValueError(f"Undefined variable: {token}")
ValueError(token) ==
    [type |-> "ValueError",
     message |-> <<"U", "n", "d", "e", "f", "i", "n", "e", "d", " ", "v", "a",
                   "r", "i", "a", "b", "l", "e", ":", " ">> \o token]

EmptyLists == [stack |-> <<>>, value_stack |-> <<>>, steps |-> <<>>,
               raised |-> NoError]

Pop(s, n) == SubSeq(s, 1, Len(s) - n)

\* f"({val1} {operator} {val2})"
binary_step_expr(val1, operator, val2) ==
    <<"(">> \o val1 \o <<" ">> \o operator \o <<" ">> \o val2 \o <<")">>

\* f"NOT({val})"
unary_step_expr(val) == NOT \o <<"(">> \o val \o <<")">>

\* the body under `if len(stack) >= 3` and the body of the final while loop:
\* three pops of each list, then the application if the middle frame is a key
\* of operations
reduce_binary(st) ==
    LET n == Len(st.stack)
        operand2 == st.stack[n]
        operator == st.stack[n - 1]
        operand1 == st.stack[n - 2]
        val2 == st.value_stack[n]
        val1 == st.value_stack[n - 2]
        popped == [st EXCEPT !.stack = Pop(st.stack, 3),
                             !.value_stack = Pop(st.value_stack, 3)]
    IN IF operator \in operations
       THEN IF operator = NOT
            THEN [popped EXCEPT !.raised = TypeError]
            ELSE LET res == apply2(operator, operand1, operand2)
                     step_expr == binary_step_expr(val1, operator, val2)
                 IN [popped EXCEPT
                        !.stack = Append(@, res),
                        !.value_stack = Append(@, step_expr),
                        !.steps = Append(@, [expr |-> step_expr, result |-> res])]
       ELSE popped

\* the body under `elif len(stack) >= 2 and stack[-2] == 'NOT'`
reduce_unary(st) ==
    LET n == Len(st.stack)
        operand == st.stack[n]
        val == st.value_stack[n]
        res == negation(operand)
        step_expr == unary_step_expr(val)
    IN [st EXCEPT
           !.stack = Append(Pop(st.stack, 2), res),
           !.value_stack = Append(Pop(st.value_stack, 2), step_expr),
           !.steps = Append(@, [expr |-> step_expr, result |-> res])]

\* the branch `elif token == ')'`
close_paren(st) ==
    IF Len(st.stack) >= 3 THEN reduce_binary(st)
    ELSE IF Len(st.stack) >= 2 /\ st.stack[Len(st.stack) - 1] = NOT
         THEN reduce_unary(st)
         ELSE st

\* token in values, for a dict keyed by one-character strings
in_values(token, vals) == Len(token) = 1 /\ token[1] \in DOMAIN vals

\* one iteration, with the variable's value pushed on value_stack
scan_token_value_text(st, token, vals) ==
    IF token = <<"(">> THEN st
    ELSE IF token = <<")">> THEN close_paren(st)
    ELSE IF token \in operations
         THEN [st EXCEPT !.stack = Append(@, token),
                         !.value_stack = Append(@, token)]
    ELSE IF ~in_values(token, vals)
         THEN [st EXCEPT !.raised = ValueError(token)]
         ELSE [st EXCEPT !.stack = Append(@, Bool(vals[token[1]])),
                         !.value_stack = Append(@, Bool(vals[token[1]]))]

\* one iteration of `for token in tokens`
scan_token(st, token, vals) ==
    IF token = <<"(">> THEN st
    ELSE IF token = <<")">> THEN close_paren(st)
    ELSE IF token \in operations
         THEN [st EXCEPT !.stack = Append(@, token),
                         !.value_stack = Append(@, token)]
    ELSE IF ~in_values(token, vals)
         THEN [st EXCEPT !.raised = ValueError(token)]
         ELSE [st EXCEPT !.stack = Append(@, Bool(vals[token[1]])),
                         !.value_stack = Append(@, token)]

\* the for loop from token n on, left by the first exception
RECURSIVE scan_from(_, _, _, _)
scan_from(st, toks, n, vals) ==
    IF n > Len(toks) \/ st.raised # NoError THEN st
    ELSE scan_from(scan_token(st, toks[n], vals), toks, n + 1, vals)

\* the test with `>` in the place of `>=`
flush_test_strict(st) == Len(st.stack) > 3
\* the test of `while len(stack) >= 3`
flush_test(st) == Len(st.stack) >= 3

\* the final while loop, left by the first exception
RECURSIVE flush(_)
flush(st) ==
    IF st.raised # NoError \/ ~flush_test(st) THEN st
    ELSE flush(reduce_binary(st))

\* `return stack[0], steps`, or the exception that leaves the function
outcome(st) ==
    IF st.raised # NoError
    THEN [raised |-> st.raised, result |-> <<>>, steps |-> <<>>, frames |-> 0]
    ELSE IF st.stack = <<>>
    THEN [raised |-> IndexError, result |-> <<>>, steps |-> <<>>, frames |-> 0]
    ELSE [raised |-> NoError, result |-> st.stack[1], steps |-> st.steps,
          frames |-> Len(st.stack)]

evaluate_tokens(toks, vals) == outcome(flush(scan_from(EmptyLists, toks, 1, vals)))

evaluate_step(e, vals) == evaluate_tokens(tokenize(parse_expression(e)), vals)

-----------------------------------------------------------------------------
(* The inputs: raw expressions as a caller may type them.                     *)

\* the variables of the generated well-formed expressions
GenVariables == {"A", "B"}
\* the binary phrases of the generated well-formed expressions
GenBinary == {Konjunkcija, IskljuchajushheeIli}

\* "(l phrase r)", written as the example of main()
Binary(l, phrase, r) == <<"(">> \o l \o <<" ">> \o phrase \o <<" ">> \o r \o <<")">>
\* "(otricanie e)"
Unary(e) == <<"(">> \o Otricanie \o <<" ">> \o e \o <<")">>

\* the well-formed expressions with exactly n operator applications
RECURSIVE WellFormedOf(_)
WellFormedOf(n) ==
    IF n = 0 THEN {<<v>> : v \in GenVariables}
    ELSE {Unary(e) : e \in WellFormedOf(n - 1)}
         \cup UNION {{Binary(l, ph, r) :
                         l \in WellFormedOf(a), ph \in GenBinary,
                         r \in WellFormedOf(n - 1 - a)} : a \in 0..(n - 1)}

WellFormed == UNION {WellFormedOf(n) : n \in 0..MaxOps}

\* a well-formed expression without its outermost parenthesis pair
Omitted(e) == IF Len(e) >= 2 THEN SubSeq(e, 2, Len(e) - 1) ELSE e

\* the concatenations of at most n pieces
RECURSIVE Concatenations(_, _)
Concatenations(pieces, n) ==
    IF n = 0 THEN {<<>>}
    ELSE LET shorter == Concatenations(pieces, n - 1)
         IN shorter \cup {s \o p : s \in shorter, p \in pieces}

WidePieces ==
    {<<"(">>, <<")">>, <<" ">>, <<"A">>, <<"B">>, <<"1">>,
     Konjunkcija, Otricanie, IskljuchajushheeIli}

NarrowPieces == {<<"(", "A">>, <<")">>, Konjunkcija}

\* the expressions the specification and the source name
Scenarios ==
    {Binary(<<"A">>, ph, <<"B">>) :
        ph \in {Konjunkcija, Dizjunkcija, Implikacija, Ekvivalentnost,
                IskljuchajushheeIli}}
    \cup {\* NOT(NOT(A))
          Otricanie \o <<"(">> \o Otricanie \o <<"(", "A", ")", ")">>,
          \* ((A AND B) OR C) IMPLIES B, the example of main()
          Omitted(Binary(Binary(Binary(<<"A">>, Konjunkcija, <<"B">>),
                                Dizjunkcija, <<"C">>),
                         Implikacija, <<"B">>)),
          \* (A AND B) OR C, evaluated also without a value for C
          Omitted(Binary(Binary(<<"A">>, Konjunkcija, <<"B">>),
                         Dizjunkcija, <<"C">>)),
          \* (A AND (NOT B)) OR C
          Omitted(Binary(Binary(<<"A">>, Konjunkcija, Unary(<<"B">>)),
                         Dizjunkcija, <<"C">>))}

Expressions ==
    WellFormed \cup {Omitted(e) : e \in WellFormed}
    \cup Concatenations(WidePieces, MaxShort)
    \cup Concatenations(NarrowPieces, MaxTokens)
    \cup Scenarios

\* the set of the variables of e
VariableSet(e) == {get_variables(e)[n] : n \in DOMAIN get_variables(e)}

\* the assignments evaluate_step is called with: one value per variable of the
\* expression, or the same without a value for C
Assignments(e) ==
    [VariableSet(e) -> BOOLEAN] \cup [VariableSet(e) \ {"C"} -> BOOLEAN]

-----------------------------------------------------------------------------
(* evaluate_step as a state machine: one action per loop iteration.           *)

Lists == [stack |-> stack, value_stack |-> value_stack, steps |-> steps,
          raised |-> raised]

\* the lists after one step, and where the function is then
Becomes(st, next_pc) ==
    /\ stack' = st.stack
    /\ value_stack' = st.value_stack
    /\ steps' = st.steps
    /\ raised' = st.raised
    /\ pc' = IF st.raised # NoError THEN "raised" ELSE next_pc

Scanning == pc = "scan" /\ pos <= Len(tokens)

EvalIdle ==
    /\ values = <<>>
    /\ tokens = <<>>
    /\ pos = 0
    /\ stack = <<>>
    /\ value_stack = <<>>
    /\ steps = <<>>
    /\ pc = "idle"
    /\ result = <<>>
    /\ raised = NoError

TableIdle ==
    /\ variables = <<>>
    /\ combinations = <<>>
    /\ table_steps = <<>>
    /\ step_headers = <<>>
    /\ markdown_table = <<>>
    /\ combo = 0
    /\ step_results = <<>>
    /\ row = <<>>
    /\ tpc = "idle"
    /\ treturn = [kind |-> "none", raised |-> NoError, text |-> <<>>]

\* a call evaluate_step(expression, values)
Init ==
    /\ expression \in Expressions
    /\ values \in Assignments(expression)
    /\ tokens = <<>>
    /\ pos = 0
    /\ stack = <<>>
    /\ value_stack = <<>>
    /\ steps = <<>>
    /\ pc = "start"
    /\ result = <<>>
    /\ raised = NoError
    /\ TableIdle

\* expr = parse_expression(expression); tokens = ...split()
Begin ==
    /\ pc = "start"
    /\ tokens' = tokenize(parse_expression(expression))
    /\ pos' = 1
    /\ pc' = "scan"
    /\ UNCHANGED <<expression, values, stack, value_stack, steps, result, raised,
                   tvars>>

\* if token == '(': continue
OpenParen ==
    /\ Scanning
    /\ tokens[pos] = <<"(">>
    /\ pos' = pos + 1
    /\ UNCHANGED <<expression, values, tokens, stack, value_stack, steps, pc,
                   result, raised, tvars>>

\* elif token == ')': if len(stack) >= 3
CloseParenBinary ==
    /\ Scanning
    /\ tokens[pos] = <<")">>
    /\ Len(stack) >= 3
    /\ Becomes(close_paren(Lists), "scan")
    /\ pos' = pos + 1
    /\ UNCHANGED <<expression, values, tokens, result, tvars>>

\* elif token == ')': elif len(stack) >= 2 and stack[-2] == 'NOT'
CloseParenUnary ==
    /\ Scanning
    /\ tokens[pos] = <<")">>
    /\ Len(stack) = 2
    /\ stack[1] = NOT
    /\ Becomes(close_paren(Lists), "scan")
    /\ pos' = pos + 1
    /\ UNCHANGED <<expression, values, tokens, result, tvars>>

\* elif token == ')': neither condition
CloseParenNeither ==
    /\ Scanning
    /\ tokens[pos] = <<")">>
    /\ Len(stack) < 3
    /\ ~(Len(stack) = 2 /\ stack[1] = NOT)
    /\ Becomes(close_paren(Lists), "scan")
    /\ pos' = pos + 1
    /\ UNCHANGED <<expression, values, tokens, result, tvars>>

\* elif token in operations
PushOperator ==
    /\ Scanning
    /\ tokens[pos] \in operations
    /\ Becomes(scan_token(Lists, tokens[pos], values), "scan")
    /\ pos' = pos + 1
    /\ UNCHANGED <<expression, values, tokens, result, tvars>>

\* else: the token is a key of values
PushVariable ==
    /\ Scanning
    /\ tokens[pos] \notin operations \cup {<<"(">>, <<")">>}
    /\ in_values(tokens[pos], values)
    /\ Becomes(scan_token(Lists, tokens[pos], values), "scan")
    /\ pos' = pos + 1
    /\ UNCHANGED <<expression, values, tokens, result, tvars>>

\* else: raise ValueError(f"Undefined variable: {token}")
UndefinedVariable ==
    /\ Scanning
    /\ tokens[pos] \notin operations \cup {<<"(">>, <<")">>}
    /\ ~in_values(tokens[pos], values)
    /\ Becomes(scan_token(Lists, tokens[pos], values), "scan")
    /\ UNCHANGED <<expression, values, tokens, pos, result, tvars>>

\* the for loop is exhausted
EndScan ==
    /\ pc = "scan"
    /\ pos > Len(tokens)
    /\ pc' = "flush"
    /\ UNCHANGED <<expression, values, tokens, pos, stack, value_stack, steps,
                   result, raised, tvars>>

\* one iteration of `while len(stack) >= 3`
FlushReduce ==
    /\ pc = "flush"
    /\ flush_test(Lists)
    /\ Becomes(reduce_binary(Lists), "flush")
    /\ UNCHANGED <<expression, values, tokens, pos, result, tvars>>

\* return stack[0], steps
Return ==
    /\ pc = "flush"
    /\ ~flush_test(Lists)
    /\ stack # <<>>
    /\ result' = stack[1]
    /\ pc' = "done"
    /\ UNCHANGED <<expression, values, tokens, pos, stack, value_stack, steps,
                   raised, tvars>>

\* return stack[0], steps on an empty stack
ReturnIndexError ==
    /\ pc = "flush"
    /\ ~flush_test(Lists)
    /\ stack = <<>>
    /\ raised' = IndexError
    /\ pc' = "raised"
    /\ UNCHANGED <<expression, values, tokens, pos, stack, value_stack, steps,
                   result, tvars>>

Next ==
    \/ Begin
    \/ OpenParen
    \/ CloseParenBinary
    \/ CloseParenUnary
    \/ CloseParenNeither
    \/ PushOperator
    \/ PushVariable
    \/ UndefinedVariable
    \/ EndScan
    \/ FlushReduce
    \/ Return
    \/ ReturnIndexError

Spec == Init /\ [][Next]_vars

-----------------------------------------------------------------------------
(* generate_truth_table.                                                      *)

\* the product with the last position varying slowest
RECURSIVE product_last_slowest(_)
product_last_slowest(n) ==
    IF n = 0 THEN << <<>> >>
    ELSE LET rest == product_last_slowest(n - 1)
         IN [k \in 1..(2 * Len(rest)) |->
                IF k <= Len(rest) THEN rest[k] \o <<TRUE>>
                ELSE rest[k - Len(rest)] \o <<FALSE>>]

\* list(itertools.product([True, False], repeat=n)): the first position varies
\* slowest, True comes before False
RECURSIVE product(_)
product(n) ==
    IF n = 0 THEN << <<>> >>
    ELSE LET rest == product(n - 1)
         IN [k \in 1..(2 * Len(rest)) |->
                IF k <= Len(rest) THEN <<TRUE>> \o rest[k]
                ELSE <<FALSE>> \o rest[k - Len(rest)]]

\* dict(zip(variables, combo))
zip_values(vs, c) ==
    [v \in {vs[n] : n \in DOMAIN vs} |-> c[CHOOSE n \in DOMAIN vs : vs[n] = v]]

\* str(n) for n >= 0
RECURSIVE str(_)
str(n) ==
    LET digits == <<"0", "1", "2", "3", "4", "5", "6", "7", "8", "9">>
    IN IF n < 10 THEN <<digits[n + 1]>>
       ELSE str(n \div 10) \o <<digits[(n % 10) + 1]>>

\* sep.join(items)
RECURSIVE join(_, _)
join(sep, items) ==
    IF items = <<>> THEN <<>>
    ELSE IF Len(items) = 1 THEN items[1]
    ELSE items[1] \o sep \o join(sep, Tail(items))

\* the inner for loop over the tag -> LaTeX items, from item n on
RECURSIVE latex_from(_, _)
latex_from(s, n) ==
    IF n > Len(latex_items) THEN s
    ELSE latex_from(replace(s, latex_items[n][1], latex_items[n][2]), n + 1)

\* f"Shag {i} (${latex_expr}$)"
step_header(n, expr) ==
    <<"u0428", "u0430", "u0433", " ">> \o str(n) \o <<" ", "(", "$">>
    \o latex_from(expr, 1) \o <<"$", ")">>

\* step_headers, from the steps of the first assignment
headers_of(first_steps) ==
    [n \in 1..Len(first_steps) |-> step_header(n, first_steps[n].expr)]

\* "| " + " | ".join(cells) + " |", the line's "\n" left to the list
table_line(cells) == <<"|", " ">> \o join(<<" ", "|", " ">>, cells) \o <<" ", "|">>

\* "|" + "|".join([":-:"] * n) + "|"
separator_line(n) ==
    <<"|">> \o join(<<"|">>, [k \in 1..n |-> <<":", "-", ":">>]) \o <<"|">>

cell(truth) == IF truth THEN <<"1">> ELSE <<"0">>

\* row, for one assignment and its step_results
row_of(vs, vals, headers, results) ==
    [n \in 1..Len(vs) |-> cell(vals[vs[n]])]
    \o [n \in 1..Len(headers) |->
           IF n <= Len(results) THEN cell(Truthy(results[n].result))
           ELSE <<"0">>]

\* a call generate_truth_table(expression)
TableInit ==
    /\ expression \in Expressions
    /\ EvalIdle
    /\ variables = <<>>
    /\ combinations = <<>>
    /\ table_steps = <<>>
    /\ step_headers = <<>>
    /\ markdown_table = <<>>
    /\ combo = 0
    /\ step_results = <<>>
    /\ row = <<>>
    /\ tpc = "start"
    /\ treturn = [kind |-> "none", raised |-> NoError, text |-> <<>>]

FirstEvaluation ==
    evaluate_step(expression,
                  zip_values(get_variables(expression),
                             product(Len(get_variables(expression)))[1]))

\* from `variables = get_variables(expression)` to the separator line
TableBegin ==
    /\ tpc = "start"
    /\ FirstEvaluation.raised = NoError
    /\ variables' = get_variables(expression)
    /\ combinations' = product(Len(variables'))
    /\ table_steps' = FirstEvaluation.steps
    /\ step_headers' = headers_of(table_steps')
    /\ markdown_table' =
          <<table_line([n \in 1..Len(variables') |-> <<variables'[n]>>]
                       \o step_headers'),
            separator_line(Len(variables') + Len(step_headers'))>>
    /\ combo' = 1
    /\ tpc' = "rows"
    /\ UNCHANGED <<expression, evars, step_results, row, treturn>>

\* the first evaluate_step raises: nothing catches it in generate_truth_table
TableFirstRaises ==
    /\ tpc = "start"
    /\ FirstEvaluation.raised # NoError
    /\ variables' = get_variables(expression)
    /\ combinations' = product(Len(variables'))
    /\ tpc' = "raised"
    /\ treturn' = [kind |-> "raised", raised |-> FirstEvaluation.raised,
                   text |-> <<>>]
    /\ UNCHANGED <<expression, evars, table_steps, step_headers, markdown_table,
                   combo, step_results, row>>

RowEvaluation ==
    evaluate_step(expression, zip_values(variables, combinations[combo]))

\* one iteration of `for combo in combinations`
TableRow ==
    /\ tpc = "rows"
    /\ combo <= Len(combinations)
    /\ RowEvaluation.raised = NoError
    /\ step_results' = RowEvaluation.steps
    /\ row' = row_of(variables, zip_values(variables, combinations[combo]),
                     step_headers, step_results')
    /\ markdown_table' = Append(markdown_table, table_line(row'))
    /\ combo' = combo + 1
    /\ UNCHANGED <<expression, evars, variables, combinations, table_steps,
                   step_headers, tpc, treturn>>

\* except Exception as e: return f"Error evaluating expression: {str(e)}"
TableRowError ==
    /\ tpc = "rows"
    /\ combo <= Len(combinations)
    /\ RowEvaluation.raised # NoError
    /\ tpc' = "returned"
    /\ treturn' =
          [kind |-> "error", raised |-> RowEvaluation.raised,
           text |-> <<"E", "r", "r", "o", "r", " ", "e", "v", "a", "l", "u",
                      "a", "t", "i", "n", "g", " ", "e", "x", "p", "r", "e",
                      "s", "s", "i", "o", "n", ":", " ">>
                    \o RowEvaluation.raised.message]
    /\ UNCHANGED <<expression, evars, variables, combinations, table_steps,
                   step_headers, markdown_table, combo, step_results, row>>

\* return markdown_table
TableReturn ==
    /\ tpc = "rows"
    /\ combo > Len(combinations)
    /\ tpc' = "returned"
    /\ treturn' = [kind |-> "table", raised |-> NoError, text |-> <<>>]
    /\ UNCHANGED <<expression, evars, variables, combinations, table_steps,
                   step_headers, markdown_table, combo, step_results, row>>

TableNext ==
    \/ TableBegin
    \/ TableFirstRaises
    \/ TableRow
    \/ TableRowError
    \/ TableReturn

SpecTable == TableInit /\ [][TableNext]_vars

-----------------------------------------------------------------------------
(* The claims.                                                                *)

Returned == pc \in {"done", "raised"}
TableLeft == tpc \in {"returned", "raised"}

BinaryTags == {AND, OR, IMPLIES, EQUIV, XOR}

\* the standard truth functions of the binary operators
StandardTruth(op, a, b) ==
    CASE op = AND -> a /\ b
      [] op = OR -> a \/ b
      [] op = IMPLIES -> ~a \/ b
      [] op = EQUIV -> (a <=> b)
      [] op = XOR -> ~(a <=> b)

\* the tokens of "(A op B)"
SingleApplication(op) == << <<"(">>, <<"A">>, op, <<"B">>, <<")">> >>

\* C1: for each binary operator op and every assignment of A and B, evaluating
\* (A op B) returns with exactly one step, whose text is "(A op B)" and whose
\* value, like the final value, is the standard truth function of op.
C1_BinaryTruthTables ==
    \A op \in BinaryTags :
        (Returned /\ tokens = SingleApplication(op)) =>
            /\ pc = "done"
            /\ Len(steps) = 1
            /\ steps[1].expr = <<"(", "A", " ">> \o op \o <<" ", "B", ")">>
            /\ steps[1].result = Bool(StandardTruth(op, values["A"], values["B"]))
            /\ result = Bool(StandardTruth(op, values["A"], values["B"]))

\* C1 happens: (A IMPLIES B) has returned false for A true, B false
C1_Witness ==
    /\ pc = "done"
    /\ tokens = SingleApplication(IMPLIES)
    /\ values["A"] /\ ~values["B"]
    /\ result = PyFalse

RECURSIVE Pow2(_)
Pow2(n) == IF n = 0 THEN 1 ELSE 2 * Pow2(n - 1)

\* the k-th tuple (k from 1) of {true,false}^n in lexicographic order, true
\* before false, the first position varying slowest
LexAssignment(n, k) == [j \in 1..n |-> ((k - 1) \div Pow2(n - j)) % 2 = 0]

\* the values a table line shows in its first n cells
LineAssignment(line, n) == [j \in 1..n |-> line[4 * j - 1] = "1"]

\* C2: a table built for n >= 1 variables without a failing evaluation has
\* exactly 2^n rows, row k shows the k-th assignment of the lexicographic
\* product order (true before false, first variable slowest), and every
\* assignment is shown by exactly one row.
C2_RowsInProductOrder ==
    (tpc = "returned" /\ treturn.kind = "table" /\ Len(variables) >= 1) =>
        LET n == Len(variables)
            rows == SubSeq(markdown_table, 3, Len(markdown_table))
        IN /\ Len(rows) = Pow2(n)
           /\ \A k \in DOMAIN rows :
                 /\ \A j \in 1..n : rows[k][4 * j - 1] \in {"0", "1"}
                 /\ LineAssignment(rows[k], n) = LexAssignment(n, k)
           /\ \A a \in [1..n -> BOOLEAN] :
                 Cardinality({k \in DOMAIN rows :
                                 LineAssignment(rows[k], n) = a}) = 1

\* C2 happens: a table of three variables has been returned with its 8 rows
C2_Witness ==
    /\ tpc = "returned"
    /\ treturn.kind = "table"
    /\ Len(variables) = 3
    /\ Len(markdown_table) = 10


\* a variable: one ASCII letter
IsVariableToken(t) == Len(t) = 1 /\ IsAsciiAlpha(t[1])

\* the index after the well-formed expression that starts at token n of t
\* (E ::= variable | "(" E op E ")" | "(" NOT E ")"), or 0 if there is none
RECURSIVE ParseEnd(_, _)
ParseEnd(t, n) ==
    IF n > Len(t) THEN 0
    ELSE IF IsVariableToken(t[n]) THEN n + 1
    ELSE IF t[n] # <<"(">> \/ n + 1 > Len(t) THEN 0
    ELSE IF t[n + 1] = NOT
    THEN LET j == ParseEnd(t, n + 2)
         IN IF j # 0 /\ j <= Len(t) /\ t[j] = <<")">> THEN j + 1 ELSE 0
    ELSE LET j == ParseEnd(t, n + 1)
         IN IF j = 0 \/ j > Len(t) \/ t[j] \notin BinaryTags THEN 0
            ELSE LET k == ParseEnd(t, j + 1)
                 IN IF k # 0 /\ k <= Len(t) /\ t[k] = <<")">> THEN k + 1 ELSE 0

WellFormedTokens(t) == ParseEnd(t, 1) = Len(t) + 1

\* t inside one more parenthesis pair
Wrap(t) == << <<"(">> >> \o t \o << <<")">> >>

\* a well-formed application without its outermost parenthesis pair
OmittedTokens(t) == ~WellFormedTokens(t) /\ WellFormedTokens(Wrap(t))

ExpressionTokens == tokenize(parse_expression(expression))

StepTexts(s) == [n \in DOMAIN s |-> s[n].expr]

\* C3, as claimed: for a fixed expression, every assignment's evaluation yields
\* the same number of steps with the same display texts as the first
\* assignment's.
C3_AnyExpression ==
    (tpc = "rows" /\ combo > 1) => StepTexts(step_results) = StepTexts(table_steps)

\* C3, amended: for a fixed well-formed expression (its outermost parenthesis
\* pair present or omitted), every assignment's evaluation completes if the
\* first one does, with the same number of steps and the same display texts.
C3_WellFormedExpression ==
    (WellFormedTokens(ExpressionTokens) \/ OmittedTokens(ExpressionTokens)) =>
        /\ (tpc = "rows" /\ combo > 1) =>
              StepTexts(step_results) = StepTexts(table_steps)
        /\ treturn.kind # "error"

\* C3 happens: a later row of a well-formed expression has two steps whose
\* values differ from the first row's
C3_Witness ==
    /\ tpc = "rows"
    /\ combo > 2
    /\ WellFormedTokens(ExpressionTokens)
    /\ Len(step_results) = 2
    /\ Len(table_steps) = 2
    /\ step_results[1].result # table_steps[1].result
    /\ step_results[2].result # table_steps[2].result


\* the tokens of "NOT(NOT(A))"
DoubleNegation ==
    <<NOT, <<"(">>, NOT, <<"(">>, <<"A">>, <<")">>, <<")">> >>

\* C4: for every assignment of A, evaluating NOT(NOT(A)) completes and returns
\* the final value that evaluating A alone returns.
C4_DoubleNegation ==
    (Returned /\ tokens = DoubleNegation) =>
        /\ pc = "done"
        /\ result = evaluate_tokens(<< <<"A">> >>, values).result

\* C5: the table build of an expression without variables completes and
\* returns a table of exactly one row, under the header and separator lines.
C5_ZeroVariables ==
    (TableLeft /\ get_variables(expression) = <<>>) =>
        /\ tpc = "returned"
        /\ treturn.kind = "table"
        /\ variables = <<>>
        /\ Len(markdown_table) = 3

\* a token that is no parenthesis, no operator tag and no key of the assignment
IsUndefined(t) == t \notin operations \cup {<<"(">>, <<")">>} /\ ~in_values(t, values)

\* C6: evaluating tokens among which one is no parenthesis, no operator tag and
\* no key of the assignment raises the undefined-variable error that names the
\* first such token, and returns no final value.
C6_UndefinedVariable ==
    (Returned /\ \E n \in DOMAIN tokens : IsUndefined(tokens[n])) =>
        LET first == CHOOSE n \in DOMAIN tokens :
                        /\ IsUndefined(tokens[n])
                        /\ \A m \in 1..(n - 1) : ~IsUndefined(tokens[m])
        IN /\ pc = "raised"
           /\ raised = ValueError(tokens[first])
           /\ result = <<>>

\* every variable of t has a value
Covered(t) == \A n \in DOMAIN t : IsVariableToken(t[n]) => in_values(t[n], values)

\* C7, as claimed: a well-formed expression evaluated without its outermost
\* parenthesis pair returns the final value and the steps that it returns with
\* the pair, and leaves exactly one frame on the stack.
C7_AnyOutermostApplication ==
    (Returned /\ OmittedTokens(tokens) /\ Covered(tokens)) =>
        LET with_pair == evaluate_tokens(Wrap(tokens), values)
        IN /\ pc = "done"
           /\ with_pair.raised = NoError
           /\ result = with_pair.result
           /\ steps = with_pair.steps
           /\ Len(stack) = 1

\* C7, amended: a well-formed expression whose outermost application is binary,
\* evaluated without its outermost parenthesis pair, ends as it ends with the
\* pair: it returns the same final value and the same steps and leaves exactly
\* one frame on the stack, or, only when it contains a NOT, both evaluations
\* raise the same error.
C7_BinaryOutermostApplication ==
    (Returned /\ OmittedTokens(tokens) /\ Covered(tokens) /\ tokens[1] # NOT) =>
        LET with_pair == evaluate_tokens(Wrap(tokens), values)
        IN /\ with_pair.raised = raised
           /\ pc = "done" =>
                 /\ result = with_pair.result
                 /\ steps = with_pair.steps
                 /\ Len(stack) = 1
                 /\ with_pair.frames = 1
           /\ pc = "raised" =>
                 /\ raised = TypeError
                 /\ \E n \in DOMAIN tokens : tokens[n] = NOT

\* C7 happens: "(A AND B) XOR A" without the outer pair has returned true
\* after two steps, the second one made by the final flush
C7_Witness ==
    /\ pc = "done"
    /\ OmittedTokens(tokens)
    /\ tokens[1] = <<"(">>
    /\ tokens[Len(tokens)] = <<"A">>
    /\ tokens[Len(tokens) - 1] = XOR
    /\ Len(steps) = 2
    /\ Len(stack) = 1
    /\ result = PyTrue

\* C8: on a closing parenthesis with a Boolean on top of the stack and NOT just
\* beneath it, at any stack height, the evaluator replaces these two frames by
\* the negated value, the two texts by "NOT(text)", appends that one step and
\* leaves the frames beneath as they are.
C8_UnaryReductionAtAnyHeight ==
    [][(/\ Scanning
        /\ tokens[pos] = <<")">>
        /\ Len(stack) >= 2
        /\ stack[Len(stack) - 1] = NOT
        /\ stack[Len(stack)] \in {PyTrue, PyFalse})
       => LET negated == Bool(stack[Len(stack)] = PyFalse)
              text == <<"N", "O", "T", "(">> \o value_stack[Len(stack)] \o <<")">>
          IN /\ raised' = NoError
             /\ stack' = Append(SubSeq(stack, 1, Len(stack) - 2), negated)
             /\ value_stack' =
                   Append(SubSeq(value_stack, 1, Len(stack) - 2), text)
             /\ steps' = Append(steps, [expr |-> text, result |-> negated])]_vars

\* C9: on a closing parenthesis where neither a binary operator tag lies
\* second from the top of at least three frames nor NOT second from the top of
\* at least two, the two stacks and the steps stay as they are and nothing is
\* raised.
C9_NoReductionLeavesStacks ==
    [][(/\ Scanning
        /\ tokens[pos] = <<")">>
        /\ ~(Len(stack) >= 3 /\ stack[Len(stack) - 1] \in BinaryTags)
        /\ ~(Len(stack) >= 2 /\ stack[Len(stack) - 1] = NOT))
       => /\ stack' = stack
          /\ value_stack' = value_stack
          /\ steps' = steps
          /\ raised' = NoError]_vars

\* the tag that starts at position n of s, the longest if several do
TagAt(s, n) ==
    LET starting == {item \in {latex_items[k] : k \in DOMAIN latex_items} :
                        /\ n + Len(item[1]) - 1 <= Len(s)
                        /\ SubSeq(s, n, n + Len(item[1]) - 1) = item[1]}
    IN IF starting = {} THEN <<>>
       ELSE CHOOSE item \in starting :
                \A other \in starting : Len(other[1]) <= Len(item[1])

\* s from position n on with every tag replaced by its own glyph
RECURSIVE TagsToGlyphs(_, _)
TagsToGlyphs(s, n) ==
    IF n > Len(s) THEN <<>>
    ELSE IF TagAt(s, n) = <<>> THEN <<s[n]>> \o TagsToGlyphs(s, n + 1)
    ELSE TagAt(s, n)[2] \o TagsToGlyphs(s, n + Len(TagAt(s, n)[1]))

\* C10: the header of step n is "Shag n ($text$)", where text is the display
\* text of the first assignment's step n with every operator tag replaced by
\* that tag's own glyph and nothing else changed.
C10_HeaderGlyphs ==
    (tpc \in {"rows", "returned"}) =>
        /\ Len(step_headers) = Len(table_steps)
        /\ \A n \in DOMAIN table_steps :
              step_headers[n] =
                  <<"u0428", "u0430", "u0433", " ">> \o str(n) \o <<" ", "(", "$">>
                  \o TagsToGlyphs(table_steps[n].expr, 1) \o <<"$", ")">>

====
